---- MODULE Spec2Model ----
(***************************************************************************)
(* Windowed scalar multiplication of GeneralEccChip                        *)
(* (src/circuit/ecc/general_ecc/mul.rs): pad, window,                      *)
(* make_incremental_table, select_multi, mul, mul_batch_1d_horizontal.     *)
(*                                                                         *)
(* Curve points are elements of the free module (Z_Modulus)^3, written     *)
(* <<x, y, z>>: points are linearly independent exactly when no relation   *)
(* between them is known, which is what the blinding argument assumes of   *)
(* the auxiliary generator and the multiplicands.  <<0, 0, 0>> is the      *)
(* identity.  Scalars are the integers 0 .. Modulus - 1.                   *)
(***************************************************************************)
EXTENDS Integers, Sequences, FiniteSets, TLC

\* ------------------------------------------------------------- bounds
\* Order of the scalar field of the emulated curve.
Modulus == 29
\* Largest window size a call is made with (0 is the rejected size).
MaxWindow == 6
\* Largest batch handed to mul_batch_1d_horizontal (0 is the rejected one).
MaxPairs == 2

\* ------------------------------------------------------------- arithmetic
RECURSIVE Pow2(_)
Pow2(n) == IF n = 0 THEN 1 ELSE 2 * Pow2(n - 1)

RECURSIVE BitLength(_)
BitLength(n) == IF n = 0 THEN 0 ELSE 1 + BitLength(n \div 2)

\* Emulated::ScalarExt::NUM_BITS: the bit length of the scalar modulus.
NUM_BITS == BitLength(Modulus)

Reverse(s) == [j \in 1..Len(s) |-> s[Len(s) + 1 - j]]

\* Value of a bit sequence read most significant bit first.
RECURSIVE BEValue(_)
BEValue(bits) ==
    IF Len(bits) = 0 THEN 0
    ELSE 2 * BEValue(SubSeq(bits, 1, Len(bits) - 1)) + bits[Len(bits)]

\* Value of a bit sequence read least significant bit first.
LEValue(bits) == BEValue(Reverse(bits))

RECURSIVE Flatten(_)
Flatten(ss) == IF Len(ss) = 0 THEN <<>> ELSE Head(ss) \o Flatten(Tail(ss))

\* ------------------------------------------------------------- the group
Identity == <<0, 0, 0>>
PAdd(a, b) == [c \in 1..3 |-> (a[c] + b[c]) % Modulus]
PNeg(a) == [c \in 1..3 |-> (Modulus - a[c]) % Modulus]
PMul(n, a) == [c \in 1..3 |-> (n * a[c]) % Modulus]

\* ------------------------------------------------------------- primitives
\* The incomplete addition formula is undefined on two equal points and on
\* two mutually inverse points.
Exceptional(a, b) == a = b \/ a = PNeg(b)
add(a, b) == PAdd(a, b)
double(a) == PAdd(a, a)
RECURSIVE double_n(_, _)
double_n(a, n) == IF n = 0 THEN a ELSE double_n(double(a), n - 1)
select(cond, a, b) == IF cond = 1 THEN a ELSE b
ladder(acc0, addend) == PAdd(PAdd(acc0, acc0), addend)
\* Bits of a scalar, least significant first, NUM_BITS of them.
decompose(s) == [j \in 1..NUM_BITS |-> (s \div Pow2(j - 1)) % 2]

NumberOfSelectors(w) == (NUM_BITS \div w) + (IF NUM_BITS % w # 0 THEN 1 ELSE 0)
\* 1 + 2^w + ... + 2^((n-1)w)
RECURSIVE GeomSum(_, _)
GeomSum(w, n) == IF n = 0 THEN 0 ELSE 1 + Pow2(w) * GeomSum(w, n - 1)
\* The blinding pair of a batch of m points: to_sub cancels the blind that
\* the sweep accumulates from to_add.
get_mul_aux(g, w, m) ==
    [to_add |-> g,
     to_sub |-> PNeg(PMul((GeomSum(w, NumberOfSelectors(w)) * (Pow2(m) - 1)) % Modulus, g))]

\* ------------------------------------------------------------- pad, window
\* let padding_offset = (window_size - (bits.len() % window_size)) % window_size
padding_offset(len, w) == (w - (len % w)) % w

\* Variant of pad that leaves out bits.reverse().
PadNoReverse(bits, w) == bits \o [j \in 1..padding_offset(Len(bits), w) |-> 0]
\* bits.extend(zeros); bits.reverse()
pad(bits, w) == Reverse(bits \o [j \in 1..padding_offset(Len(bits), w) |-> 0])

\* Variant of window that leaves out selector.reverse().
WindowNoReverse(bits, w) ==
    [i \in 1..(Len(bits) \div w) |-> [j \in 1..w |-> bits[(i - 1) * w + j]]]
\* Window i takes bits[i * window_size + j] for j in 0..window_size, reversed.
window(bits, w) ==
    [i \in 1..(Len(bits) \div w) |-> Reverse([j \in 1..w |-> bits[(i - 1) * w + j]])]

\* ------------------------------------------------------------- tables
\* let table_size = 1 << window_size
table_size(w) == Pow2(w)
\* Variant of the push that adds point to the root, not to the last entry.
TablePushFromRoot(table, point) == Append(table, add(table[1], point))
\* table.push(self.add(region, &table[i], point, offset)?)
TablePush(table, point) == Append(table, add(table[Len(table)], point))

\* ------------------------------------------------------------- select_multi
\* Variant of the select with its two candidates exchanged.
SelectPairSwapped(cond, reducer, j) == select(cond, reducer[2 * j + 1], reducer[2 * j + 2])
\* reducer[j] = select(selector, &reducer[k + 1], &reducer[k]) with k = 2j
SelectPair(cond, reducer, j) == select(cond, reducer[2 * j + 2], reducer[2 * j + 1])

\* for j in 0..n { reducer[j] = select(..) }: iteration j reads entries 2j
\* and 2j + 1, which no earlier iteration has written, so the n writes are
\* those of one simultaneous update.
SelectInner(reducer, cond, n) ==
    [j \in 1..Len(reducer) |->
        IF j <= n THEN SelectPair(cond, reducer, j - 1) ELSE reducer[j]]

RECURSIVE SelectRounds(_, _, _)
SelectRounds(reducer, selector, i) ==
    IF i = Len(selector) THEN reducer
    ELSE SelectRounds(SelectInner(reducer, selector[i + 1], Pow2(Len(selector) - 1 - i)),
                      selector, i + 1)

select_multi(selector, table) == SelectRounds(table, selector, 0)[1]

\* ------------------------------------------------------------- inputs
\* Errors a primitive of the chip layer may return.
Errors == {"E1", "E2"}
\* The error of an addition or ladder step handed an exceptional pair.
Undefined == "Undefined"
\* Auxiliary generators the supplier may hold, and points a caller may pass.
AuxInputs == {<<1, 0, 0>>, <<0, 1, 0>>}
PointInputs == {<<0, 1, 0>>, <<0, 0, 1>>}
Scalars == 0..(Modulus - 1)
MulPairs == [point : PointInputs, scalar : Scalars]
BatchPairs ==
    {[point |-> <<0, 1, 0>>, scalar |-> 3], [point |-> <<0, 0, 1>>, scalar |-> 2],
     [point |-> <<0, 1, 0>>, scalar |-> 0], [point |-> <<0, 0, 1>>, scalar |-> Modulus - 1]}
RECURSIVE SeqsUpTo(_, _)
SeqsUpTo(S, n) ==
    IF n = 0 THEN {<<>>}
    ELSE LET shorter == SeqsUpTo(S, n - 1)
         IN shorter \cup {Append(q, x) : q \in {r \in shorter : Len(r) = n - 1}, x \in S}

\* ------------------------------------------------------------- state
VARIABLES
    op,            \* entry point called: "mul" or "batch"
    pc,            \* position in the entry point's body
    window_size,   \* argument window_size
    pairs,         \* argument pairs (mul: its one point and scalar)
    gen,           \* the auxiliary generator the supplier holds
    aux,           \* let aux
    decomposed,    \* decomposed / decomposed_scalars, one bit vector per pair
    windowed,      \* windowed / windowed_scalars, one Windowed per pair
    table,         \* let mut table of the make_incremental_table call under way
    tables,        \* table / tables collected so far
    binary_aux,    \* let mut binary_aux
    table_res,     \* the closure's pending `table` Result: "ok" or its error
    acc,           \* let mut acc
    to_add,        \* let to_add
    i,             \* windows consumed so far (mul) / loop variable i (batch)
    p,             \* index of the pair being processed
    result,        \* what the call returned
    first_err,     \* history: error of the first primitive that failed
    exceptional,   \* history: an add or ladder step got an exceptional pair
    sel,           \* history: the last select_multi call
    doublings      \* history: number of doublings of binary_aux

args == <<op, window_size, pairs, gen>>
vars == <<op, pc, window_size, pairs, gen, aux, decomposed, windowed, table, tables,
          binary_aux, table_res, acc, to_add, i, p, result, first_err,
          exceptional, sel, doublings>>

NoResult == [tag |-> "none", point |-> Identity, err |-> "none"]
Ok(pt) == [tag |-> "ok", point |-> pt, err |-> "none"]
Err(e) == [tag |-> "err", point |-> Identity, err |-> e]
Panic == [tag |-> "panic", point |-> Identity, err |-> "none"]
NoSel == [selector |-> <<>>, table |-> <<>>, out |-> Identity]

Init ==
    /\ op \in {"mul", "batch"}
    /\ window_size \in 0..MaxWindow
    /\ gen \in AuxInputs
    /\ pairs \in IF op = "mul" THEN {<<x>> : x \in MulPairs}
                 ELSE SeqsUpTo(BatchPairs, MaxPairs)
    /\ pc = "call"
    /\ aux = [to_add |-> Identity, to_sub |-> Identity]
    /\ decomposed = <<>>
    /\ windowed = <<>>
    /\ table = <<>>
    /\ tables = <<>>
    /\ binary_aux = Identity
    /\ table_res = "ok"
    /\ acc = Identity
    /\ to_add = Identity
    /\ i = 0
    /\ p = 0
    /\ result = NoResult
    /\ first_err = "none"
    /\ exceptional = FALSE
    /\ sel = NoSel
    /\ doublings = 0

\* A primitive returns Err(e) and the `?` returns it from the entry point.
Fail(e) ==
    /\ pc' = "done"
    /\ result' = Err(e)
    /\ first_err' = IF first_err = "none" THEN e ELSE first_err
    /\ UNCHANGED <<args, aux, decomposed, windowed, table, tables, binary_aux, table_res,
                   acc, to_add, i, p, sel, doublings>>

\* Some primitive call of the step fails with an error of the chip layer.
Fault == \E e \in Errors : Fail(e) /\ UNCHANGED exceptional
\* An addition or ladder step is handed an exceptional pair.
Undef == Fail(Undefined) /\ exceptional' = TRUE
\* An assertion or an index check of the entry point fails.
Abort ==
    /\ pc' = "panicked"
    /\ result' = Panic
    /\ UNCHANGED <<args, aux, decomposed, windowed, table, tables, binary_aux, table_res,
                   acc, to_add, i, p, first_err, exceptional, sel, doublings>>

\* ------------------------------------------------------------- mul
point0 == pairs[1].point
scalar0 == pairs[1].scalar

\* Doublings ahead of a ladder step, which doubles once more itself.
\* Variant doubling a full window ahead of the ladder step.
LoopDoublingsUniform(w) == w
LoopDoublings(w) == w - 1

\* for selector in windowed.0.iter().skip(2): another window, or the end.
MulLoopPc(consumed) ==
    IF consumed < Len(windowed[1]) THEN "loop_double" ELSE "final_add"

\* assert!(window_size > 0)
MulCall ==
    /\ op = "mul" /\ pc = "call"
    /\ \/ /\ window_size > 0
          /\ pc' = "aux"
          /\ UNCHANGED <<args, aux, decomposed, windowed, table, tables, binary_aux,
                         table_res, acc, to_add, i, p, result, first_err,
                         exceptional, sel, doublings>>
       \/ /\ ~(window_size > 0)
          /\ Abort

\* let aux = self.get_mul_aux(window_size, 1)?
MulGetAux ==
    /\ op = "mul" /\ pc = "aux"
    /\ \/ /\ aux' = get_mul_aux(gen, window_size, 1)
          /\ pc' = "decompose"
          /\ UNCHANGED <<args, decomposed, windowed, table, tables, binary_aux, table_res,
                         acc, to_add, i, p, result, first_err, exceptional, sel,
                         doublings>>
       \/ Fault

\* let decomposed = &mut scalar_chip.decompose(region, scalar, offset)?
MulDecompose ==
    /\ op = "mul" /\ pc = "decompose"
    /\ \/ /\ decomposed' = <<decompose(scalar0)>>
          /\ pc' = "pad"
          /\ UNCHANGED <<args, aux, windowed, table, tables, binary_aux, table_res, acc,
                         to_add, i, p, result, first_err, exceptional, sel,
                         doublings>>
       \/ Fault

\* self.pad(region, decomposed, window_size, offset)?
MulPad ==
    /\ op = "mul" /\ pc = "pad"
    /\ \/ /\ Len(decomposed[1]) = NUM_BITS
          /\ decomposed' = <<pad(decomposed[1], window_size)>>
          /\ pc' = "window"
          /\ UNCHANGED <<args, aux, windowed, table, tables, binary_aux, table_res, acc,
                         to_add, i, p, result, first_err, exceptional, sel,
                         doublings>>
       \/ /\ padding_offset(NUM_BITS, window_size) > 0
          /\ Fault

\* let windowed = Self::window(decomposed.to_vec(), window_size)
MulWindow ==
    /\ op = "mul" /\ pc = "window"
    /\ Len(decomposed[1]) % window_size = 0
    /\ windowed' = <<window(decomposed[1], window_size)>>
    /\ pc' = "table"
    /\ UNCHANGED <<args, aux, decomposed, table, tables, binary_aux, table_res, acc,
                   to_add, i, p, result, first_err, exceptional, sel, doublings>>

\* The table under way: vec![aux.clone()] when the call has just begun.
TableUnderWay(root) == IF table = <<>> THEN <<root>> ELSE table

\* let table = &self.make_incremental_table(region, &aux.to_add, point, ..)?
\* One iteration of its loop; the last one returns the table.
MulTable ==
    /\ op = "mul" /\ pc = "table"
    /\ LET cur == TableUnderWay(aux.to_add)
           next == TablePush(cur, point0)
       IN \/ /\ ~Exceptional(cur[Len(cur)], point0)
             /\ IF Len(next) < table_size(window_size)
                THEN table' = next /\ UNCHANGED <<tables, pc>>
                ELSE table' = <<>> /\ tables' = <<next>> /\ pc' = "select_first"
             /\ UNCHANGED <<args, aux, decomposed, windowed, binary_aux, table_res,
                            acc, to_add, i, p, result, first_err, exceptional, sel,
                            doublings>>
          \/ /\ Exceptional(cur[Len(cur)], point0)
             /\ Undef
          \/ Fault

\* let mut acc = self.select_multi(region, &windowed.0[0], table, offset)?
MulSelectFirst ==
    /\ op = "mul" /\ pc = "select_first"
    /\ \/ /\ Len(tables[1]) = Pow2(Len(windowed[1][1]))
          /\ acc' = select_multi(windowed[1][1], tables[1])
          /\ sel' = [selector |-> windowed[1][1], table |-> tables[1],
                     out |-> acc']
          /\ i' = 1
          /\ pc' = "double_first"
          /\ UNCHANGED <<args, aux, decomposed, windowed, table, tables, binary_aux,
                         table_res, to_add, p, result, first_err, exceptional,
                         doublings>>
       \/ Fault

\* acc = self.double_n(region, &acc, window_size, offset)?
MulDoubleFirst ==
    /\ op = "mul" /\ pc = "double_first"
    /\ \/ /\ acc' = double_n(acc, window_size)
          /\ pc' = "select_second"
          /\ UNCHANGED <<args, aux, decomposed, windowed, table, tables, binary_aux,
                         table_res, to_add, i, p, result, first_err, exceptional,
                         sel, doublings>>
       \/ Fault

\* let to_add = self.select_multi(region, &windowed.0[1], table, offset)?
MulSelectSecond ==
    /\ op = "mul" /\ pc = "select_second"
    /\ \/ /\ Len(windowed[1]) >= 2
          /\ to_add' = select_multi(windowed[1][2], tables[1])
          /\ sel' = [selector |-> windowed[1][2], table |-> tables[1],
                     out |-> to_add']
          /\ pc' = "add_second"
          /\ UNCHANGED <<args, aux, decomposed, windowed, table, tables, binary_aux,
                         table_res, acc, i, p, result, first_err, exceptional,
                         doublings>>
       \/ /\ Len(windowed[1]) >= 2
          /\ Fault
       \/ /\ Len(windowed[1]) < 2
          /\ Abort

\* acc = self.add(region, &acc, &to_add, offset)?
MulAddSecond ==
    /\ op = "mul" /\ pc = "add_second"
    /\ \/ /\ ~Exceptional(acc, to_add)
          /\ acc' = add(acc, to_add)
          /\ i' = 2
          /\ pc' = MulLoopPc(2)
          /\ UNCHANGED <<args, aux, decomposed, windowed, table, tables, binary_aux,
                         table_res, to_add, p, result, first_err, exceptional,
                         sel, doublings>>
       \/ /\ Exceptional(acc, to_add)
          /\ Undef
       \/ Fault

\* acc = self.double_n(region, &acc, window_size - 1, offset)?
MulLoopDouble ==
    /\ op = "mul" /\ pc = "loop_double"
    /\ \/ /\ acc' = double_n(acc, LoopDoublings(window_size))
          /\ pc' = "loop_select"
          /\ UNCHANGED <<args, aux, decomposed, windowed, table, tables, binary_aux,
                         table_res, to_add, i, p, result, first_err, exceptional,
                         sel, doublings>>
       \/ /\ LoopDoublings(window_size) > 0
          /\ Fault

\* let to_add = self.select_multi(region, selector, table, offset)?
MulLoopSelect ==
    /\ op = "mul" /\ pc = "loop_select"
    /\ \/ /\ to_add' = select_multi(windowed[1][i + 1], tables[1])
          /\ sel' = [selector |-> windowed[1][i + 1], table |-> tables[1],
                     out |-> to_add']
          /\ pc' = "loop_ladder"
          /\ UNCHANGED <<args, aux, decomposed, windowed, table, tables, binary_aux,
                         table_res, acc, i, p, result, first_err, exceptional,
                         doublings>>
       \/ Fault

\* acc = self.ladder(region, &acc, &to_add, offset)?
MulLadder ==
    /\ op = "mul" /\ pc = "loop_ladder"
    /\ \/ /\ ~Exceptional(acc, to_add)
          /\ acc' = ladder(acc, to_add)
          /\ i' = i + 1
          /\ pc' = MulLoopPc(i + 1)
          /\ UNCHANGED <<args, aux, decomposed, windowed, table, tables, binary_aux,
                         table_res, to_add, p, result, first_err, exceptional,
                         sel, doublings>>
       \/ /\ Exceptional(acc, to_add)
          /\ Undef
       \/ Fault

\* self.add(region, &acc, &aux.to_sub, offset)
MulFinalAdd ==
    /\ op = "mul" /\ pc = "final_add"
    /\ \/ /\ ~Exceptional(acc, aux.to_sub)
          /\ result' = Ok(add(acc, aux.to_sub))
          /\ pc' = "done"
          /\ UNCHANGED <<args, aux, decomposed, windowed, table, tables, binary_aux,
                         table_res, acc, to_add, i, p, first_err, exceptional,
                         sel, doublings>>
       \/ /\ Exceptional(acc, aux.to_sub)
          /\ Undef
       \/ Fault

MulNext ==
    \/ MulCall \/ MulGetAux \/ MulDecompose \/ MulPad \/ MulWindow \/ MulTable
    \/ MulSelectFirst \/ MulDoubleFirst \/ MulSelectSecond \/ MulAddSecond
    \/ MulLoopDouble \/ MulLoopSelect \/ MulLadder \/ MulFinalAdd

\* ------------------------------------------------------------- mul_batch_1d_horizontal
NumPairs == Len(pairs)
\* let number_of_windows = windowed_scalars[0].0.len()
number_of_windows == Len(windowed[1])

\* When the first round is over the sweep starts at i = 1; it ends at
\* number_of_windows.
BatchFirstPc(done) == IF done < NumPairs THEN "first_select" ELSE "round"

\* assert!(window_size > 0); assert!(pairs.len() > 0)
BatchCall ==
    /\ op = "batch" /\ pc = "call"
    /\ \/ /\ window_size > 0 /\ NumPairs > 0
          /\ pc' = "aux"
          /\ UNCHANGED <<args, aux, decomposed, windowed, table, tables, binary_aux,
                         table_res, acc, to_add, i, p, result, first_err,
                         exceptional, sel, doublings>>
       \/ /\ ~(window_size > 0 /\ NumPairs > 0)
          /\ Abort

\* let aux = self.get_mul_aux(window_size, pairs.len())?
BatchGetAux ==
    /\ op = "batch" /\ pc = "aux"
    /\ \/ /\ aux' = get_mul_aux(gen, window_size, NumPairs)
          /\ pc' = "decompose"
          /\ UNCHANGED <<args, decomposed, windowed, table, tables, binary_aux, table_res,
                         acc, to_add, i, p, result, first_err, exceptional, sel,
                         doublings>>
       \/ Fault

\* .map(|(_, scalar)| scalar_chip.decompose(region, scalar, offset)).collect()?
BatchDecompose ==
    /\ op = "batch" /\ pc = "decompose"
    /\ \/ /\ decomposed' = Append(decomposed, decompose(pairs[p + 1].scalar))
          /\ p' = IF p + 1 < NumPairs THEN p + 1 ELSE 0
          /\ pc' = IF p + 1 < NumPairs THEN "decompose" ELSE "pad"
          /\ UNCHANGED <<args, aux, windowed, table, tables, binary_aux, table_res, acc,
                         to_add, i, result, first_err, exceptional, sel, doublings>>
       \/ Fault

\* for decomposed in decomposed_scalars.iter_mut() { self.pad(..)? }
BatchPad ==
    /\ op = "batch" /\ pc = "pad"
    /\ Len(decomposed[p + 1]) = NUM_BITS
    /\ \/ /\ decomposed' = [decomposed EXCEPT ![p + 1] = pad(@, window_size)]
          /\ p' = IF p + 1 < NumPairs THEN p + 1 ELSE 0
          /\ pc' = IF p + 1 < NumPairs THEN "pad" ELSE "window"
          /\ UNCHANGED <<args, aux, windowed, table, tables, binary_aux, table_res, acc,
                         to_add, i, result, first_err, exceptional, sel, doublings>>
       \/ /\ padding_offset(NUM_BITS, window_size) > 0
          /\ Fault

\* let windowed_scalars = ...map(|d| Self::window(d.to_vec(), window_size));
\* let mut binary_aux = aux.to_add.clone()
BatchWindow ==
    /\ op = "batch" /\ pc = "window"
    /\ \A n \in 1..NumPairs : Len(decomposed[n]) % window_size = 0
    /\ windowed' = [n \in 1..NumPairs |-> window(decomposed[n], window_size)]
    /\ binary_aux' = aux.to_add
    /\ pc' = "table"
    /\ UNCHANGED <<args, aux, decomposed, table, tables, table_res, acc, to_add, i, p,
                   result, first_err, exceptional, sel, doublings>>

\* The closure's first statement: let table = self.make_incremental_table(..),
\* a Result that is not inspected before the doubling that follows it.
BatchTableFailed(e, exc) ==
    /\ table' = <<>>
    /\ table_res' = e
    /\ first_err' = IF first_err = "none" THEN e ELSE first_err
    /\ exceptional' = (exceptional \/ exc)
    /\ IF p # NumPairs - 1
       THEN pc' = "double_aux" /\ UNCHANGED result
       ELSE pc' = "done" /\ result' = Err(e)
    /\ UNCHANGED <<args, aux, decomposed, windowed, tables, binary_aux, acc,
                   to_add, i, p, sel, doublings>>

\* One iteration of the loop of make_incremental_table; the last one
\* returns the table.
BatchTable ==
    /\ op = "batch" /\ pc = "table"
    /\ LET cur == TableUnderWay(binary_aux)
           next == TablePush(cur, pairs[p + 1].point)
       IN \/ /\ ~Exceptional(cur[Len(cur)], pairs[p + 1].point)
             /\ IF Len(next) < table_size(window_size)
                THEN table' = next /\ UNCHANGED <<tables, pc>>
                ELSE /\ table' = <<>>
                     /\ tables' = Append(tables, next)
                     /\ pc' = IF p # NumPairs - 1 THEN "double_aux" ELSE "select_first"
             /\ UNCHANGED <<args, aux, decomposed, windowed, binary_aux, table_res,
                            acc, to_add, i, p, result, first_err, exceptional, sel,
                            doublings>>
          \/ /\ Exceptional(cur[Len(cur)], pairs[p + 1].point)
             /\ BatchTableFailed(Undefined, TRUE)
          \/ \E e \in Errors : BatchTableFailed(e, FALSE)

\* if i != pairs.len() - 1 { binary_aux = self.double(..)? }; table
BatchDoubleAux ==
    /\ op = "batch" /\ pc = "double_aux"
    /\ \/ /\ binary_aux' = double(binary_aux)
          /\ doublings' = doublings + 1
          /\ IF table_res = "ok"
             THEN pc' = "table" /\ p' = p + 1 /\ UNCHANGED result
             ELSE pc' = "done" /\ result' = Err(table_res) /\ UNCHANGED p
          /\ UNCHANGED <<args, aux, decomposed, windowed, table, tables, table_res, acc,
                         to_add, i, first_err, exceptional, sel>>
       \/ Fault

\* let mut acc = self.select_multi(.., &windowed_scalars[0].0[0], &tables[0], ..)?
BatchSelectFirst ==
    /\ op = "batch" /\ pc = "select_first"
    /\ \/ /\ acc' = select_multi(windowed[1][1], tables[1])
          /\ sel' = [selector |-> windowed[1][1], table |-> tables[1],
                     out |-> acc']
          /\ p' = 1
          /\ i' = 1
          /\ pc' = BatchFirstPc(1)
          /\ UNCHANGED <<args, aux, decomposed, windowed, table, tables, binary_aux,
                         table_res, to_add, result, first_err, exceptional,
                         doublings>>
       \/ Fault

\* for (table, windowed) in tables.skip(1).zip(windowed_scalars.skip(1)):
\* let to_add = self.select_multi(region, &windowed.0[0], table, offset)?
BatchFirstSelect ==
    /\ op = "batch" /\ pc = "first_select"
    /\ \/ /\ to_add' = select_multi(windowed[p + 1][1], tables[p + 1])
          /\ sel' = [selector |-> windowed[p + 1][1], table |-> tables[p + 1],
                     out |-> to_add']
          /\ pc' = "first_add"
          /\ UNCHANGED <<args, aux, decomposed, windowed, table, tables, binary_aux,
                         table_res, acc, i, p, result, first_err, exceptional,
                         doublings>>
       \/ Fault

\* acc = self.add(region, &acc, &to_add, offset)?
BatchFirstAdd ==
    /\ op = "batch" /\ pc = "first_add"
    /\ \/ /\ ~Exceptional(acc, to_add)
          /\ acc' = add(acc, to_add)
          /\ p' = p + 1
          /\ pc' = BatchFirstPc(p + 1)
          /\ UNCHANGED <<args, aux, decomposed, windowed, table, tables, binary_aux,
                         table_res, to_add, i, result, first_err, exceptional,
                         sel, doublings>>
       \/ /\ Exceptional(acc, to_add)
          /\ Undef
       \/ Fault

\* for i in 1..number_of_windows { acc = self.double_n(.., window_size, ..)?
BatchDouble ==
    /\ op = "batch" /\ pc = "round"
    /\ i < number_of_windows
    /\ \/ /\ acc' = double_n(acc, window_size)
          /\ p' = 0
          /\ pc' = "round_select"
          /\ UNCHANGED <<args, aux, decomposed, windowed, table, tables, binary_aux,
                         table_res, to_add, i, result, first_err, exceptional,
                         sel, doublings>>
       \/ Fault

\* let to_add = self.select_multi(region, &windowed.0[i], table, offset)?
BatchRoundSelect ==
    /\ op = "batch" /\ pc = "round_select"
    /\ \/ /\ to_add' = select_multi(windowed[p + 1][i + 1], tables[p + 1])
          /\ sel' = [selector |-> windowed[p + 1][i + 1], table |-> tables[p + 1],
                     out |-> to_add']
          /\ pc' = "round_add"
          /\ UNCHANGED <<args, aux, decomposed, windowed, table, tables, binary_aux,
                         table_res, acc, i, p, result, first_err, exceptional,
                         doublings>>
       \/ Fault

\* acc = self.add(region, &acc, &to_add, offset)?
BatchRoundAdd ==
    /\ op = "batch" /\ pc = "round_add"
    /\ \/ /\ ~Exceptional(acc, to_add)
          /\ acc' = add(acc, to_add)
          /\ p' = IF p + 1 < NumPairs THEN p + 1 ELSE 0
          /\ i' = IF p + 1 < NumPairs THEN i ELSE i + 1
          /\ pc' = IF p + 1 < NumPairs THEN "round_select" ELSE "round"
          /\ UNCHANGED <<args, aux, decomposed, windowed, table, tables, binary_aux,
                         table_res, to_add, result, first_err, exceptional, sel,
                         doublings>>
       \/ /\ Exceptional(acc, to_add)
          /\ Undef
       \/ Fault

\* self.add(region, &acc, &aux.to_sub, offset)
BatchFinalAdd ==
    /\ op = "batch" /\ pc = "round"
    /\ ~(i < number_of_windows)
    /\ \/ /\ ~Exceptional(acc, aux.to_sub)
          /\ result' = Ok(add(acc, aux.to_sub))
          /\ pc' = "done"
          /\ UNCHANGED <<args, aux, decomposed, windowed, table, tables, binary_aux,
                         table_res, acc, to_add, i, p, first_err, exceptional,
                         sel, doublings>>
       \/ /\ Exceptional(acc, aux.to_sub)
          /\ Undef
       \/ Fault

BatchNext ==
    \/ BatchCall \/ BatchGetAux \/ BatchDecompose \/ BatchPad \/ BatchWindow
    \/ BatchTable \/ BatchDoubleAux \/ BatchSelectFirst \/ BatchFirstSelect
    \/ BatchFirstAdd \/ BatchDouble \/ BatchRoundSelect \/ BatchRoundAdd
    \/ BatchFinalAdd

Next == MulNext \/ BatchNext

Spec == Init /\ [][Next]_vars

\* ------------------------------------------------------------- properties
\* The auxiliary generator is independent of every multiplicand: it has a
\* component along a direction in which no multiplicand has one.
ValidAux == gen[1] # 0 /\ \A n \in 1..Len(pairs) : pairs[n].point[1] = 0
\* No primitive of the chip layer was made to fail by its environment.
NoFault == first_err \in {"none", Undefined}
Ceil(a, b) == (a + b - 1) \div b
RECURSIVE SumOfProducts(_)
SumOfProducts(ps) ==
    IF Len(ps) = 0 THEN Identity
    ELSE PAdd(PMul(Head(ps).scalar, Head(ps).point), SumOfProducts(Tail(ps)))
Distinct(t) == \A a, b \in 1..Len(t) : a # b => t[a] # t[b]
\* pad has been applied to the bits of pair n.
PadDone(n) == (pc = "pad" /\ n <= p) \/ pc = "window" \/ windowed # <<>>
\* 1 + 2^w + ... + 2^((j-1)w) in closed form.
Blind(w, j) == (Pow2(j * w) - 1) \div (Pow2(w) - 1)

\* C1: with an auxiliary pair that is valid and cancels, and no primitive
\* failing, mul(P, s, k) for k in {1,2,3,4,8} ends by returning s.P, for
\* every scalar s in range.
C1_MulReturnsScalarMultiple ==
    (op = "mul" /\ window_size \in {1, 2, 3, 4, 8} /\ ValidAux /\ NoFault /\ pc = "done")
        => result = Ok(PMul(scalar0, point0))

\* C2: with an auxiliary pair that is valid and cancels, and no primitive
\* failing, mul_batch_1d_horizontal(pairs, k) ends by returning the sum of
\* the s_i.P_i, for every non-empty list of pairs.
C2_BatchReturnsSum ==
    (op = "batch" /\ ValidAux /\ NoFault /\ pc = "done")
        => result = Ok(SumOfProducts(pairs))

\* C3: with a valid auxiliary pair, no addition or ladder step of mul is
\* ever handed two equal or two mutually inverse points, whatever the scalar
\* (0 and the modulus minus 1 included) and the window size.
C3_NoExceptionalPair == (op = "mul" /\ ValidAux) => ~exceptional

\* C4 as stated: for k in {1,2,3,4} and a table of 2^k distinct values,
\* select_multi returns the entry whose index is the selector read with its
\* first bit as the most significant one.
C4_FirstBitMostSignificant ==
    (sel.table # <<>> /\ Len(sel.selector) \in 1..4 /\ Distinct(sel.table))
        => sel.out = sel.table[BEValue(sel.selector) + 1]

\* C4 amended: select_multi returns the entry whose index is the selector
\* read with its first bit as the least significant one.
C4_FirstBitLeastSignificant ==
    sel.table # <<>>
        => /\ Len(sel.table) = Pow2(Len(sel.selector))
           /\ sel.out = sel.table[LEValue(sel.selector) + 1]

\* A call on a table of 16 distinct entries with selector 1,0,0,0 returned entry 1.
C4_Witness ==
    /\ sel.selector = <<1, 0, 0, 0>>
    /\ Distinct(sel.table)
    /\ sel.out = sel.table[2]
    /\ sel.out # sel.table[9]

\* C5: pad turns the NUM_BITS bits of decompose into a sequence of length
\* window_size * ceil(NUM_BITS / window_size) whose big-endian value is the
\* scalar; all it adds are zeros at the most significant end, and it adds
\* none when NUM_BITS mod window_size = 0.
C5_PadKeepsValue ==
    \A n \in 1..Len(decomposed) :
        PadDone(n) =>
            LET bits == decomposed[n]
                added == Len(bits) - NUM_BITS
            IN /\ Len(bits) = window_size * Ceil(NUM_BITS, window_size)
               /\ BEValue(bits) = pairs[n].scalar
               /\ added >= 0
               /\ \A j \in 1..added : bits[j] = 0
               /\ SubSeq(bits, added + 1, Len(bits)) = Reverse(decompose(pairs[n].scalar))
               /\ (NUM_BITS % window_size = 0 => added = 0)

\* pad has just extended the bits of the scalar Modulus - 1.
C5_Witness ==
    /\ op = "mul" /\ pc = "window"
    /\ scalar0 = Modulus - 1
    /\ Len(decomposed[1]) > NUM_BITS

\* C6: when a primitive returns an error, the call returns no point and
\* the error it returns is that of the first primitive that failed.
C6_FirstErrorReturned ==
    (pc = "done" /\ first_err # "none" /\ ~exceptional) => result = Err(first_err)

\* C7: for every window_size > 0, a single window included, mul ends
\* without an assertion or index failure.
C7_AnyPositiveWindowSize == (op = "mul" /\ window_size > 0) => pc # "panicked"

\* C8 as stated: the Selectors, concatenated in order, are the padded
\* big-endian sequence (each lists its bits most significant first).
C8_SelectorsMostSignificantFirst ==
    \A n \in 1..Len(windowed) : Flatten(windowed[n]) = decomposed[n]

\* C8 amended: window returns padded_length / window_size Selectors of
\* window_size bits each, most significant window first, each listing the
\* bits of its window least significant first: the Selectors reversed and
\* concatenated in order are the padded big-endian sequence.
C8_SelectorsLeastSignificantFirst ==
    \A n \in 1..Len(windowed) :
        /\ Len(windowed[n]) * window_size = Len(decomposed[n])
        /\ \A j \in 1..Len(windowed[n]) : Len(windowed[n][j]) = window_size
        /\ Flatten([j \in 1..Len(windowed[n]) |-> Reverse(windowed[n][j])]) = decomposed[n]

\* window has cut a padded sequence into Selectors of two or more bits that
\* do not read the same in both directions.
C8_Witness ==
    /\ windowed # <<>>
    /\ window_size >= 2
    /\ Len(windowed[1]) >= 2
    /\ Flatten(windowed[1]) # decomposed[1]

\* C9: in mul_batch_1d_horizontal the table of pair j has 2^k entries,
\* entry i being 2^j.aux.to_add + i.point_j, and the running base has been
\* doubled once after each table but the last.
C9_BatchTables ==
    op = "batch" =>
        /\ \A n \in 1..Len(tables) :
               /\ Len(tables[n]) = Pow2(window_size)
               /\ \A j \in 0..(Pow2(window_size) - 1) :
                      tables[n][j + 1] =
                          PAdd(PMul(Pow2(n - 1), aux.to_add), PMul(j, pairs[n].point))
        /\ NumPairs > 0 => doublings <= NumPairs - 1
        /\ (NumPairs > 0 /\ Len(tables) = NumPairs) => doublings = NumPairs - 1

\* Both tables of a batch of two are built, with windows of two bits.
C9_Witness ==
    /\ op = "batch" /\ NumPairs = 2 /\ window_size = 2
    /\ Len(tables) = 2
    /\ doublings = 1
    /\ pc = "select_first"

\* C10: once mul has combined the j most significant windows, the
\* accumulator is (1 + 2^k + ... + 2^((j-1)k)).aux.to_add + v_j.point, v_j the
\* value of those windows; the blind met by the final addition is
\* ((2^(nk) - 1) / (2^k - 1)).aux.to_add whatever the scalar.
C10_SweepInvariant ==
    (op = "mul" /\ pc \in {"double_first", "loop_double", "final_add"}) =>
        /\ acc = PAdd(PMul(Blind(window_size, i), aux.to_add),
                      PMul(BEValue(SubSeq(decomposed[1], 1, i * window_size)), point0))
        /\ pc = "final_add" =>
               /\ i = Len(windowed[1])
               /\ PAdd(acc, PNeg(PMul(scalar0, point0)))
                      = PMul(Blind(window_size, Len(windowed[1])), aux.to_add)

\* The sweep has gone through ladder steps with windows of two bits or
\* more and stands before the final addition.
C10_Witness ==
    /\ op = "mul" /\ pc = "final_add"
    /\ window_size = 2
    /\ i = 3
    /\ scalar0 = Modulus - 1
====
